---- MODULE Spec2Model ----
(***************************************************************************)
(* A model of oxide-tokio-rt (src/lib.rs): the three entry points `run`,   *)
(* `run_builder` and `build`, the configuration they apply to a            *)
(* tokio::runtime::Builder, and the error/panic contract.                  *)
(*                                                                         *)
(* The calling thread is a sequential process whose position is `pc`; it   *)
(* makes up to MaxCalls calls of the entry points.  The engine (tokio) and *)
(* the probe subsystem (tokio-dtrace) are the environment: their outcomes  *)
(* (success or failure with some cause, worker threads starting, the       *)
(* future being pending or ready) are nondeterministic.                    *)
(***************************************************************************)
EXTENDS Integers, Sequences, FiniteSets, TLC

VARIABLES
    platform,   \* cfg(target_os): "illumos" or "other"; fixed for the process
    pc,         \* position of the calling thread
    entry,      \* the entry point the caller invoked: "run", "run_builder", "build"
    calls,      \* number of entry-point calls begun
    orig,       \* the Builder as the caller prepared it, before the call
    builder,    \* the Builder behind `&mut Builder`, mutated in place
    main,       \* the submitted future (its identity), or NoFuture
    driven,     \* the future handed to rt.block_on, or NoFuture
    out,        \* block_on's view of the future: [done, val]
    bres,       \* the value build() returns to its caller
    result,     \* what the entry point gave its caller (value, runtime, error, panic)
    cause,      \* the underlying failure of this call: [stage, e]
    log,        \* the Builder/engine operations build() invoked in this call, in order
    cnt,        \* per call: [build, block_on, polls] invocation counts
    runtimes,   \* every Runtime constructed in the process, in construction order
    threads     \* the worker threads of the live runtimes, in creation order

vars == <<platform, pc, entry, calls, orig, builder, main, driven, out, bres,
          result, cause, log, cnt, runtimes, threads>>

(***************************************************************************)
(* Bounds of the model.                                                    *)
(***************************************************************************)
MaxCalls == 2
MaxWorkers == 2
MaxPending == 1

\* the number of CPUs, the engine's worker count when the caller set none
NumCpus == MaxWorkers

Values == {41, 42}
Causes == {"EAGAIN", "ENOMEM"}
Platforms == {"illumos", "other"}

DefaultThreadName == <<"tokio-runtime-worker">>
CallerThreadName == <<"my-worker">>

ProbePrefix == "failed to initialize tokio-dtrace probes: "
RuntimePrefix == "failed to initialize Tokio runtime: "

NoFuture == [id |-> 0]
NoCause == [stage |-> "none", e |-> "none"]
NoResult == [tag |-> "none", val |-> 0, rt |-> 0, msg |-> <<>>]
NoCnt == [build |-> 0, block_on |-> 0, polls |-> 0]
NotDone == [done |-> FALSE, val |-> 0]

(***************************************************************************)
(* tokio::runtime::Builder, as far as this crate touches or documents it.  *)
(* worker_threads = 0 stands for None (the engine then uses the number of  *)
(* CPUs).  disable_lifo_slot is FALSE on a new Builder: tokio only offers  *)
(* the setter that disables the slot.                                      *)
(***************************************************************************)
NewBuilder(kind) ==
    [kind |-> kind, worker_threads |-> 0,
     enable_io |-> FALSE, enable_time |-> FALSE, disable_lifo_slot |-> FALSE,
     on_thread_start |-> "none", thread_name |-> DefaultThreadName]

\* Builder::new_multi_thread(), the builder `run` constructs
new_multi_thread == NewBuilder("multi_thread")

\* the builders a caller can have prepared before run_builder / build
CallerBuilders ==
    { [kind |-> k, worker_threads |-> w,
       enable_io |-> io, enable_time |-> tm, disable_lifo_slot |-> lf,
       on_thread_start |-> h, thread_name |-> n] :
        k \in {"current_thread", "multi_thread"}, w \in 0..MaxWorkers,
        io \in BOOLEAN, tm \in BOOLEAN, lf \in BOOLEAN,
        h \in {"none", "caller"},
        n \in {DefaultThreadName, CallerThreadName} }

\* the future of the n-th call; what it resolves to is known when it completes
Future(n) == [id |-> n]

\* the prepared builders on which the caller touched none of the settings that
\* build() sets itself
PlainBuilders ==
    { b \in CallerBuilders :
        ~b.enable_io /\ ~b.enable_time /\ ~b.disable_lifo_slot }


(***************************************************************************)
(* The Builder setters build() calls.                                      *)
(***************************************************************************)
\* tokio_dtrace::register_hooks(builder) on success: installs the probe hooks,
\* replacing whatever callbacks the caller had registered
register_hooks(b) == [b EXCEPT !.on_thread_start = "dtrace"]

\* mutant: build() starts over from a fresh multi-thread builder
enable_all_fresh(b) ==
    [new_multi_thread EXCEPT !.enable_io = TRUE, !.enable_time = TRUE,
                             !.on_thread_start = b.on_thread_start]

\* Builder::enable_all: the I/O and the time driver
enable_all(b) == [b EXCEPT !.enable_io = TRUE, !.enable_time = TRUE]

\* mutant: the call of disable_lifo_slot is left out
disable_lifo_slot_skipped(b) == b

\* mutant: build() also names the worker threads itself
disable_lifo_slot_naming(b) ==
    [b EXCEPT !.disable_lifo_slot = TRUE, !.thread_name = <<"oxide-rt">>]

\* mutant: build() also names the worker threads after a process-wide count
disable_lifo_slot_counting(b) ==
    [b EXCEPT !.disable_lifo_slot = TRUE,
              !.thread_name = <<"oxide-rt", Len(runtimes)>>]

\* Builder::disable_lifo_slot
disable_lifo_slot(b) == [b EXCEPT !.disable_lifo_slot = TRUE]

\* map_err of the probe registration: anyhow!("failed to initialize tokio-dtrace probes: {e}")
ProbeError(e) == <<ProbePrefix, e>>

\* mutant: the engine's error is reported with the probe stage's message
RuntimeErrorAsProbe(e) == <<ProbePrefix, e>>

\* map_err of the engine's build: anyhow!("failed to initialize Tokio runtime: {e}")
RuntimeError(e) == <<RuntimePrefix, e>>

\* panic!("{e:?}"): the panic message is the error's Debug rendering, which for
\* an anyhow error made from a message is that message
PanicMessage(e) == e

\* Number of worker threads the engine starts for a builder
WorkersOf(b) ==
    IF b.kind = "current_thread" THEN 0
    ELSE IF b.worker_threads = 0 THEN NumCpus ELSE b.worker_threads

\* Builder::build on success: the Runtime takes the builder's settings as they
\* are at that moment; `req` remembers what the caller had asked for
EngineBuild(b, o) ==
    [kind |-> b.kind, workers |-> WorkersOf(b),
     enable_io |-> b.enable_io, enable_time |-> b.enable_time,
     disable_lifo_slot |-> b.disable_lifo_slot,
     on_thread_start |-> b.on_thread_start, thread_name |-> b.thread_name,
     req |-> [on_thread_start |-> o.on_thread_start, thread_name |-> o.thread_name],
     alive |-> TRUE]

\* The worker threads the engine spawns while it builds runtime number r from
\* builder b: each is named by the builder's thread-name setting as it is
\* spawned, and runs the builder's on_thread_start callback as it starts
SpawnWorkers(r, b) ==
    [i \in 1..WorkersOf(b) |->
        [rt |-> r, name |-> b.thread_name, ran |-> b.on_thread_start]]

\* what is left of a Runtime once it was dropped
Dropped ==
    [kind |-> "dropped", workers |-> 0, enable_io |-> TRUE, enable_time |-> TRUE,
     disable_lifo_slot |-> TRUE, on_thread_start |-> "none",
     thread_name |-> DefaultThreadName,
     req |-> [on_thread_start |-> "none", thread_name |-> DefaultThreadName],
     alive |-> FALSE]

\* the worker threads that are not of runtime r
ThreadsButOf(r) == SelectSeq(threads, LAMBDA t : t.rt # r)

Ok(rt) == [tag |-> "runtime", val |-> 0, rt |-> rt, msg |-> <<>>]
Err(m) == [tag |-> "err", val |-> 0, rt |-> 0, msg |-> m]
Value(v) == [tag |-> "value", val |-> v, rt |-> 0, msg |-> <<>>]
Panic(m) == [tag |-> "panic", val |-> 0, rt |-> 0, msg |-> m]

Init ==
    /\ platform \in Platforms
    /\ pc = "idle"
    /\ entry = "none"
    /\ calls = 0
    /\ orig = new_multi_thread
    /\ builder = new_multi_thread
    /\ main = NoFuture
    /\ driven = NoFuture
    /\ out = NotDone
    /\ bres = NoResult
    /\ result = NoResult
    /\ cause = NoCause
    /\ log = <<>>
    /\ cnt = NoCnt
    /\ runtimes = <<>>
    /\ threads = <<>>

\* what every entry point starts from: a fresh call, nothing of the last one left
BeginCall(e, b, m) ==
    /\ pc = "idle"
    /\ calls < MaxCalls
    /\ calls' = calls + 1
    /\ entry' = e
    /\ orig' = b
    /\ builder' = b
    /\ main' = m
    /\ driven' = NoFuture
    /\ out' = NotDone
    /\ bres' = NoResult
    /\ result' = NoResult
    /\ cause' = NoCause
    /\ log' = <<>>
    /\ UNCHANGED <<platform, runtimes, threads>>

\* run(main): run_builder(&mut Builder::new_multi_thread(), main)
Run ==
    /\ BeginCall("run", new_multi_thread, Future(calls + 1))
    /\ pc' = "run_builder"
    /\ cnt' = NoCnt

\* the caller invokes run_builder(builder, main) on a builder it prepared
CallRunBuilder(b) ==
    /\ BeginCall("run_builder", b, Future(calls + 1))
    /\ pc' = "run_builder"
    /\ cnt' = NoCnt

\* run_builder: `match build(builder)`, the call
RunBuilderCallsBuild ==
    /\ pc = "run_builder"
    /\ pc' = "build"
    /\ cnt' = [cnt EXCEPT !.build = @ + 1]
    /\ UNCHANGED <<platform, entry, calls, orig, builder, main, driven, out, bres,
                   result, cause, log, runtimes, threads>>

\* the caller invokes build(builder) directly
CallBuild(b) ==
    /\ BeginCall("build", b, NoFuture)
    /\ pc' = "build"
    /\ cnt' = [NoCnt EXCEPT !.build = 1]

\* build, #[cfg(target_os = "illumos")]: register_hooks succeeded
BuildRegisterOk ==
    /\ pc = "build"
    /\ platform = "illumos"
    /\ builder' = register_hooks(builder)
    /\ log' = Append(log, "register_hooks")
    /\ pc' = "build_registered"
    /\ UNCHANGED <<platform, entry, calls, orig, main, driven, out, bres, result,
                   cause, cnt, runtimes, threads>>

\* mutant: the failure of register_hooks is noted but build() carries on
BuildRegisterErrIgnored ==
    /\ pc = "build"
    /\ platform = "illumos"
    /\ \E e \in Causes : cause' = [stage |-> "probes", e |-> e]
    /\ log' = Append(log, "register_hooks")
    /\ pc' = "build_registered"
    /\ UNCHANGED <<platform, entry, calls, orig, builder, main, driven, out, bres,
                   result, cnt, runtimes, threads>>

\* build, #[cfg(target_os = "illumos")]: register_hooks failed, `?` returns the error
BuildRegisterErr ==
    /\ pc = "build"
    /\ platform = "illumos"
    /\ \E e \in Causes :
        /\ cause' = [stage |-> "probes", e |-> e]
        /\ bres' = Err(ProbeError(e))
    /\ log' = Append(log, "register_hooks")
    /\ pc' = "build_ret"
    /\ UNCHANGED <<platform, entry, calls, orig, builder, main, driven, out, result,
                   cnt, runtimes, threads>>

\* build: builder.enable_all(); the first statement where the probe step is
\* compiled out
BuildEnableAll ==
    /\ \/ pc = "build" /\ platform # "illumos"
       \/ pc = "build_registered"
    /\ builder' = enable_all(builder)
    /\ log' = Append(log, "enable_all")
    /\ pc' = "build_enabled"
    /\ UNCHANGED <<platform, entry, calls, orig, main, driven, out, bres, result,
                   cause, cnt, runtimes, threads>>

\* build: .disable_lifo_slot()
BuildDisableLifoSlot ==
    /\ pc = "build_enabled"
    /\ builder' = disable_lifo_slot(builder)
    /\ log' = Append(log, "disable_lifo_slot")
    /\ pc' = "build_configured"
    /\ UNCHANGED <<platform, entry, calls, orig, main, driven, out, bres, result,
                   cause, cnt, runtimes, threads>>

\* build: .build() succeeded: the engine has spawned its worker threads and the
\* Runtime is returned
BuildFinalizeOk ==
    /\ pc = "build_configured"
    /\ runtimes' = Append(runtimes, EngineBuild(builder, orig))
    /\ threads' = threads \o SpawnWorkers(Len(runtimes) + 1, builder)
    /\ bres' = Ok(Len(runtimes) + 1)
    /\ log' = Append(log, "build")
    /\ pc' = "build_ret"
    /\ UNCHANGED <<platform, entry, calls, orig, builder, main, driven, out, result,
                   cause, cnt>>

\* build: .build() failed, map_err wraps the engine's error
BuildFinalizeErr ==
    /\ pc = "build_configured"
    /\ \E e \in Causes :
        /\ cause' = [stage |-> "runtime", e |-> e]
        /\ bres' = Err(RuntimeError(e))
    /\ log' = Append(log, "build")
    /\ pc' = "build_ret"
    /\ UNCHANGED <<platform, entry, calls, orig, builder, main, driven, out, result,
                   cnt, runtimes, threads>>

\* build called directly: its Result goes to the caller, who goes on
BuildReturn ==
    /\ pc = "build_ret"
    /\ entry = "build"
    /\ result' = bres
    /\ pc' = "idle"
    /\ UNCHANGED <<platform, entry, calls, orig, builder, main, driven, out, bres,
                   cause, log, cnt, runtimes, threads>>

\* mutant: run_builder blocks on the future whatever build() returned
RunBuilderOkAlways ==
    /\ pc = "build_ret"
    /\ entry # "build"
    /\ driven' = main
    /\ cnt' = [cnt EXCEPT !.block_on = @ + 1]
    /\ pc' = "block_on"
    /\ UNCHANGED <<platform, entry, calls, orig, builder, main, out, bres, result,
                   cause, log, runtimes, threads>>

\* run_builder: Ok(rt) => rt.block_on(main)
RunBuilderOk ==
    /\ pc = "build_ret"
    /\ entry # "build"
    /\ bres.tag = "runtime"
    /\ driven' = main
    /\ cnt' = [cnt EXCEPT !.block_on = @ + 1]
    /\ pc' = "block_on"
    /\ UNCHANGED <<platform, entry, calls, orig, builder, main, out, bres, result,
                   cause, log, runtimes, threads>>

\* mutant: run_builder hands the error back instead of panicking
RunBuilderErrReturned ==
    /\ pc = "build_ret"
    /\ entry # "build"
    /\ bres.tag = "err"
    /\ result' = bres
    /\ pc' = "idle"
    /\ UNCHANGED <<platform, entry, calls, orig, builder, main, driven, out, bres,
                   cause, log, cnt, runtimes, threads>>

\* run_builder: Err(e) => panic!("{e:?}")
RunBuilderErr ==
    /\ pc = "build_ret"
    /\ entry # "build"
    /\ bres.tag = "err"
    /\ result' = Panic(PanicMessage(bres.msg))
    /\ pc' = "panicked"
    /\ UNCHANGED <<platform, entry, calls, orig, builder, main, driven, out, bres,
                   cause, log, cnt, runtimes, threads>>

\* rt.block_on: one poll of the future it was given, which is Pending (at most
\* MaxPending times) or Ready with the value the future resolves to
BlockOnPoll ==
    /\ pc = "block_on"
    /\ ~out.done
    /\ cnt' = [cnt EXCEPT !.polls = @ + 1]
    /\ \/ cnt.polls < MaxPending /\ out' = out
       \/ \E v \in Values : out' = [done |-> TRUE, val |-> v]
    /\ UNCHANGED <<platform, pc, entry, calls, orig, builder, main, driven, bres,
                   result, cause, log, runtimes, threads>>

\* mutant: block_on returns without waiting for the future to complete
BlockOnReturnEarly ==
    /\ pc = "block_on"
    /\ result' = Value(out.val)
    /\ runtimes' = [runtimes EXCEPT ![bres.rt] = Dropped]
    /\ threads' = ThreadsButOf(bres.rt)
    /\ pc' = "idle"
    /\ UNCHANGED <<platform, entry, calls, orig, builder, main, driven, out, bres,
                   cause, log, cnt>>

\* rt.block_on returns the future's output and run_builder returns it; `rt`
\* goes out of scope, which shuts the runtime down and ends its worker threads
BlockOnReturn ==
    /\ pc = "block_on"
    /\ out.done
    /\ result' = Value(out.val)
    /\ runtimes' = [runtimes EXCEPT ![bres.rt] = Dropped]
    /\ threads' = ThreadsButOf(bres.rt)
    /\ pc' = "idle"
    /\ UNCHANGED <<platform, entry, calls, orig, builder, main, driven, out, bres,
                   cause, log, cnt>>

\* the steps inside a call
Step ==
    \/ RunBuilderCallsBuild
    \/ BuildRegisterOk
    \/ BuildRegisterErr
    \/ BuildEnableAll
    \/ BuildDisableLifoSlot
    \/ BuildFinalizeOk
    \/ BuildFinalizeErr
    \/ BuildReturn
    \/ RunBuilderOk
    \/ RunBuilderErr
    \/ BlockOnPoll
    \/ BlockOnReturn

\* One call of an entry point, on any builder the caller can have prepared.
Next ==
    \/ calls = 0 /\ Run
    \/ calls = 0 /\ \E b \in CallerBuilders : CallRunBuilder(b)
    \/ calls = 0 /\ \E b \in CallerBuilders : CallBuild(b)
    \/ Step

Spec == Init /\ [][Next]_vars

\* A process that calls the entry points up to MaxCalls times, one call after
\* the other, on builders whose policy settings the caller left alone.
NextProcess ==
    \/ Run
    \/ \E b \in PlainBuilders : CallRunBuilder(b)
    \/ \E b \in PlainBuilders : CallBuild(b)
    \/ Step

SpecProcess == Init /\ [][NextProcess]_vars


(***************************************************************************)
(* Properties.                                                             *)
(***************************************************************************)
Range(q) == { q[i] : i \in 1..Len(q) }
IsPrefix(p, q) == Len(p) <= Len(q) /\ \A i \in 1..Len(p) : p[i] = q[i]
Launched == entry \in {"run", "run_builder"}
Returned == pc = "idle" /\ entry # "none"
ThreadsOf(r) == { i \in 1..Len(threads) : threads[i].rt = r }

\* C1: run and run_builder return exactly the value the submitted future
\* resolved to, and only once it has completed; run is run_builder on a fresh
\* Builder::new_multi_thread().
PassThrough ==
    /\ Launched /\ Returned =>
        /\ result.tag = "value"
        /\ out.done
        /\ result.val = out.val
        /\ driven = main
    /\ entry = "run" => orig = new_multi_thread

PassThroughWitness ==
    /\ Returned
    /\ entry = "run"
    /\ result = Value(42)
    /\ cnt.polls > 1

\* C2: on a construction failure build returns an error value and never
\* panics, while run and run_builder panic with a diagnostic and never return.
FatalOrRecoverable ==
    /\ entry = "build" => pc # "panicked"
    /\ entry = "build" /\ Returned /\ cause.stage # "none" => result.tag = "err"
    /\ Launched /\ cause.stage # "none" =>
        /\ pc \in {"build_ret", "panicked"}
        /\ result.tag \in {"none", "panic"}
    /\ pc = "panicked" =>
        /\ cause.stage # "none"
        /\ result.tag = "panic"
        /\ result.msg # <<>>

FatalOrRecoverableWitness ==
    /\ pc = "panicked"
    /\ entry = "run_builder"
    /\ cause.stage = "runtime"

\* C3: every builder that reaches the engine's build, and every runtime built,
\* has the LIFO slot disabled and the I/O and time drivers enabled, whatever
\* the caller had set.
PolicyApplied ==
    /\ pc = "build_configured" \/ "build" \in Range(log) =>
        /\ builder.disable_lifo_slot
        /\ builder.enable_io
        /\ builder.enable_time
    /\ \A r \in 1..Len(runtimes) :
        /\ runtimes[r].disable_lifo_slot
        /\ runtimes[r].enable_io
        /\ runtimes[r].enable_time

PolicyAppliedWitness ==
    /\ Returned
    /\ result.tag = "runtime"
    /\ ~orig.disable_lifo_slot
    /\ ~orig.enable_io
    /\ ~orig.enable_time
    /\ runtimes[result.rt].alive

\* C7: an error of build names the stage that failed and carries the
\* underlying cause: the probe message for a registration failure, the runtime
\* message for an engine failure, never the other one; the panic of
\* run_builder carries that same error.
ErrorNamesStage ==
    /\ ProbePrefix # RuntimePrefix
    /\ bres.tag = "err" <=> cause.stage # "none"
    /\ cause.stage = "probes" => bres.msg = <<ProbePrefix, cause.e>>
    /\ cause.stage = "runtime" => bres.msg = <<RuntimePrefix, cause.e>>
    /\ pc = "panicked" => result.msg = bres.msg
    /\ entry = "build" /\ Returned => result = bres

ErrorNamesStageWitness ==
    /\ pc = "panicked"
    /\ cause.stage = "runtime"
    /\ result.msg = <<RuntimePrefix, "ENOMEM">>

\* the operations of one build() in order, with the probe step where it exists
BuildOrder ==
    IF platform = "illumos"
      THEN <<"register_hooks", "enable_all", "disable_lifo_slot", "build">>
      ELSE <<"enable_all", "disable_lifo_slot", "build">>

\* C8: where probes exist build registers them first, then enables the
\* drivers, disables the LIFO slot and builds; a failed registration returns
\* at once, the engine's build is never called and nothing is constructed.
\* Where probes do not exist there is no registration and it is never the
\* cause of a failure.
ProbesFirst ==
    /\ IsPrefix(log, BuildOrder)
    /\ cause.stage = "probes" =>
        /\ log = <<"register_hooks">>
        /\ bres.tag = "err"
        /\ pc \in {"build_ret", "panicked", "idle"}
        /\ runtimes = <<>>
        /\ threads = <<>>
    /\ platform # "illumos" =>
        /\ "register_hooks" \notin Range(log)
        /\ cause.stage # "probes"

ProbesFirstWitness ==
    /\ platform = "illumos"
    /\ cause.stage = "probes"
    /\ entry = "build"
    /\ Returned
    /\ result.tag = "err"

\* C9: a call of run or run_builder makes one call of build and, when that
\* succeeded, one block_on of exactly the submitted future; the future is
\* polled only after build succeeded and never when it failed.
OneBuildOneBlockOn ==
    /\ cnt.build <= 1
    /\ cnt.block_on <= 1
    /\ cnt.polls > 0 \/ cnt.block_on > 0 =>
        /\ bres.tag = "runtime"
        /\ cnt.build = 1
        /\ cnt.block_on = 1
        /\ driven = main
    /\ pc = "panicked" =>
        /\ cnt = [build |-> 1, block_on |-> 0, polls |-> 0]
        /\ driven = NoFuture
    /\ Launched /\ Returned =>
        /\ cnt.build = 1
        /\ cnt.block_on = 1
        /\ cnt.polls >= 1
        /\ driven = Future(calls)

OneBuildOneBlockOnWitness ==
    /\ Launched
    /\ Returned
    /\ calls = 2
    /\ cnt.polls = 2

\* C10: build leaves the threading mode and the worker-thread count of the
\* builder as the caller set them, whether it returns a runtime or an error,
\* and the runtime it constructs uses them.
FrameKept ==
    /\ builder.kind = orig.kind
    /\ builder.worker_threads = orig.worker_threads
    /\ bres.tag = "runtime" /\ runtimes[bres.rt].alive =>
        /\ runtimes[bres.rt].kind = orig.kind
        /\ orig.kind = "current_thread" => ThreadsOf(bres.rt) = {}
        /\ orig.kind = "multi_thread" /\ orig.worker_threads > 0 =>
            /\ runtimes[bres.rt].workers = orig.worker_threads
            /\ Cardinality(ThreadsOf(bres.rt)) = orig.worker_threads

FrameKeptWitness ==
    /\ Returned
    /\ entry = "build"
    /\ result.tag = "runtime"
    /\ orig.kind = "multi_thread"
    /\ orig.worker_threads = 2
    /\ orig.enable_io
    /\ builder.disable_lifo_slot
    /\ Cardinality(ThreadsOf(result.rt)) = 2


CallerThreadStartNeverRuns ==
    \A i \in 1..Len(threads) :
        runtimes[threads[i].rt].req.on_thread_start = "caller"
            => threads[i].ran # "caller"

====
